---- MODULE Spec2Model ----
(***************************************************************************)
(* Citation-resolution core of LiteratureQuery.                            *)
(*                                                                         *)
(*   - the reference resolver is the script src/list_references.py: it     *)
(*     locates the bibliography block of a paper text and prints, for each *)
(*     number of ref_numbers, the entry found in the block or NOT FOUND;   *)
(*   - the citation parser is steps 2-4 of the extraction template that    *)
(*     src/extract_references.py generates (manual_extraction_template).   *)
(*                                                                         *)
(* A text is a sequence of one-character strings.  Positions handed to or  *)
(* returned by the Python string methods (find, slicing) are 0-based as in *)
(* Python; positions inside the regular-expression matchers are 1-based    *)
(* indices into the sequence, Len(t)+1 being the end of the text.          *)
(***************************************************************************)
EXTENDS Integers, Sequences, FiniteSets, TLC

VARIABLES
    text,              \* list_references.py:5   the paper text read from the file
    ref_numbers,       \* list_references.py:8   the requested reference numbers
    references_start,  \* list_references.py:17  result of the find calls
    references_text,   \* list_references.py:21  the bibliography block
    idx,               \* position of the for loop of line 24 in ref_numbers
    match,             \* list_references.py:29  the last re.search result
    stdout,            \* the lines printed by lines 36-40 (the fixed banners of
                       \* lines 10-14, 42 and 44 are left out)
    total,             \* the count printed by line 43
    pc,                \* position of the script
    section_text,      \* extract_references.py:271  the section pasted into the template
    citations,         \* extract_references.py:278  the groups re.findall returns
    all_refs,          \* extract_references.py:281  the numbers collected so far
    cidx,              \* position of the for loop of line 282 in citations
    unique_refs,       \* extract_references.py:287  the parser's result
    ppc,               \* position of the template script
    references,        \* extract_references.py:292  the entries filled into the template
    didx,              \* position of the for loop of line 304 in unique_refs
    shown,             \* the lines printed by lines 306-307
    args,              \* main.py:90   the parsed command line
    inputs,            \* the PDF files of inputs/, by stem
    folders,           \* which of tmp/txts and tmp/extraction_templates exist
    txts,              \* the text files of tmp/txts, by stem
    templates,         \* the template files of tmp/extraction_templates, by stem
    outputs,           \* the result files of outputs/, by stem
    txt_files,         \* extract_references.py:351  what the extraction step globbed
    txts_at_start,     \* the text files of tmp/txts when main was entered
    mpc                \* position of main

\* the variables of list_references.py
rvars == <<text, ref_numbers, references_start, references_text, idx, match,
           stdout, total, pc>>

\* the variables of the generated template
pvars == <<section_text, citations, all_refs, cidx, unique_refs, ppc>>

\* the variables of steps 5-6 of the generated template
dvars == <<references, didx, shown>>

\* the variables of main.py and of the folders it works on
mvars == <<args, inputs, folders, txts, templates, outputs, txt_files,
           txts_at_start, mpc>>

vars == <<rvars, pvars, dvars, mvars>>

----------------------------------------------------------------------------
(* Bounds of the model. *)

\* A paper text is a concatenation of at most MaxSegs segments.
MaxSegs == 3
\* Requested reference numbers are drawn from 1..MaxId.
MaxId == 2
\* A section text handed to the citation parser has at most MaxChars characters.
MaxChars == 6
\* A folder holds at most MaxFiles files.
MaxFiles == 2

----------------------------------------------------------------------------
(* Characters and character classes. *)

LF  == "\n"
TAB == "\t"
SP  == " "

\* \s of the re module and the characters str.strip() removes.  Both also
\* take the non-ASCII whitespace of Unicode, and \d its non-ASCII digits; the
\* texts of the model are ASCII.
Whitespace == {" ", "\t", "\n", "\r", "\f"}

\* \d of the re module, each digit at the index of its value plus one
DigitChars == <<"0", "1", "2", "3", "4", "5", "6", "7", "8", "9">>

Digits == {DigitChars[i] : i \in 1..10}

IsSpace(c) == c \in Whitespace

IsDigit(c) == c \in Digits

\* the literal 'References' of line 17
ReferencesToken == <<"R", "e", "f", "e", "r", "e", "n", "c", "e", "s">>

\* the literal '[1]' of line 19
FirstMarker == <<"[", "1", "]">>

\* the literal Appendix of the pattern of line 27
AppendixToken == <<"A", "p", "p", "e", "n", "d", "i", "x">>

\* the literal NOT FOUND of line 39
NotFoundToken == <<"N", "O", "T", " ", "F", "O", "U", "N", "D">>

----------------------------------------------------------------------------
(* Python string primitives. *)

\* whether the sequence sub occurs in t at 1-based position p
HasAt(t, p, sub) ==
    /\ p >= 1
    /\ p + Len(sub) - 1 <= Len(t)
    /\ \A k \in 1..Len(sub) : t[p + k - 1] = sub[k]

\* str.find: the lowest 0-based index at which sub occurs in t, or -1
PyFind(t, sub) ==
    LET hits == {p \in 1..(Len(t) + 1) : HasAt(t, p, sub)}
    IN  IF hits = {} THEN -1
        ELSE (CHOOSE p \in hits : \A q \in hits : p <= q) - 1

\* t[start:] of Python: a negative start counts from the end of t, and a
\* start outside the text is clamped to it
PySliceFrom(t, start) ==
    LET n == Len(t)
        s == IF start < 0
             THEN (IF start + n < 0 THEN 0 ELSE start + n)
             ELSE (IF start > n THEN n ELSE start)
    IN  SubSeq(t, s + 1, n)

\* str(n) for a natural number n
RECURSIVE ToDigits(_)
ToDigits(n) ==
    IF n < 10 THEN <<DigitChars[n + 1]>>
    ELSE ToDigits(n \div 10) \o <<DigitChars[(n % 10) + 1]>>

\* str.strip(): leading and trailing whitespace removed
PyStrip(t) ==
    LET keep == {p \in 1..Len(t) : ~IsSpace(t[p])}
    IN  IF keep = {} THEN <<>>
        ELSE SubSeq(t, CHOOSE p \in keep : \A q \in keep : p <= q,
                       CHOOSE p \in keep : \A q \in keep : q <= p)

\* re.sub(r'\s+', ' ', t): every maximal run of whitespace becomes one space
RECURSIVE CollapseSpaces(_)
CollapseSpaces(t) ==
    IF t = <<>> THEN <<>>
    ELSE IF IsSpace(Head(t))
         THEN LET rest == {p \in 2..Len(t) : ~IsSpace(t[p])}
              IN  IF rest = {} THEN <<SP>>
                  ELSE <<SP>> \o CollapseSpaces(
                           SubSeq(t, CHOOSE p \in rest : \A q \in rest : p <= q,
                                  Len(t)))
         ELSE <<Head(t)>> \o CollapseSpaces(Tail(t))

----------------------------------------------------------------------------
(* The entry pattern of list_references.py:27 and its search.               *)

\* the character of t at 1-based position p, "" past either end
At(t, p) == IF p >= 1 /\ p <= Len(t) THEN t[p] ELSE ""

\* rf'\[{ref_num}\]': the marker the pattern starts with
Marker(ref_num) == <<"[">> \o ToDigits(ref_num) \o <<"]">>

\* EntryLookahead without the alternative \n\d+\n
EntryLookaheadNoPageLine(t, e) ==
    \/ HasAt(t, e, <<LF, "[">>)
    \/ HasAt(t, e, <<LF>> \o AppendixToken)
    \/ e = Len(t) + 1
    \/ (e = Len(t) /\ t[e] = LF)

\* The lookahead (?=\n\[|\nAppendix|\n\d+\n|$) at position e.  Without
\* re.MULTILINE, $ holds at the end of the text and before a final newline.
EntryLookahead(t, e) ==
    \/ HasAt(t, e, <<LF, "[">>)
    \/ HasAt(t, e, <<LF>> \o AppendixToken)
    \/ /\ At(t, e) = LF
       /\ \E m \in 1..(Len(t) - e) :
              /\ \A k \in 1..m : IsDigit(t[e + k])
              /\ At(t, e + m + 1) = LF
    \/ e = Len(t) + 1
    \/ (e = Len(t) /\ t[e] = LF)

\* the length of the maximal run of whitespace of t that starts at p
SpaceRun(t, p) ==
    LET stops == {q \in p..(Len(t) + 1) : ~IsSpace(At(t, q))}
    IN  (CHOOSE q \in stops : \A r \in stops : q <= r) - p

None == [found |-> FALSE, start |-> 0, gstart |-> 0, gend |-> 0]

\* One match attempt of the pattern at position s: the marker, then \s+
\* (greedy: the longest run first, giving characters back while the rest
\* fails), then the group (.*?) (lazy, re.DOTALL: the shortest stretch of
\* any characters after which the lookahead holds).  The group of the match
\* is t[gstart .. gend-1].
MatchAt(t, ref_num, s) ==
    LET lit   == Marker(ref_num)
        from  == s + Len(lit)
        run   == SpaceRun(t, from)
        ends(k) == {e \in (from + k)..(Len(t) + 1) : EntryLookahead(t, e)}
        ks    == {k \in 1..run : ends(k) # {}}
    IN  IF ~HasAt(t, s, lit) \/ ks = {} THEN None
        ELSE LET k == CHOOSE x \in ks : \A y \in ks : y <= x
                 e == CHOOSE x \in ends(k) : \A y \in ends(k) : x <= y
             IN  [found |-> TRUE, start |-> s, gstart |-> from + k, gend |-> e]

\* re.search(pattern, t, re.DOTALL): the match at the leftmost position
\* where an attempt succeeds, or None
EntrySearch(t, ref_num) ==
    LET hits == {s \in 1..Len(t) : MatchAt(t, ref_num, s).found}
    IN  IF hits = {} THEN None
        ELSE MatchAt(t, ref_num, CHOOSE s \in hits : \A r \in hits : s <= r)

\* match.group(1)
Group1(t, m) == SubSeq(t, m.gstart, m.gend - 1)

\* CleanEntry without the re.sub of line 34
CleanEntryStripOnly(g) == PyStrip(g)

\* lines 32-34: strip, then collapse the runs of whitespace
CleanEntry(g) == CollapseSpaces(PyStrip(g))

\* lines 36-37: print(f"[{ref_num}] {ref_text}"); print()
FoundLines(ref_num, ref_text) ==
    <<Marker(ref_num) \o <<SP>> \o ref_text, <<>>>>

\* NotFoundLines with the else branch of lines 38-40 left out
NotFoundLinesOmitted(ref_num) == <<>>

\* lines 39-40: print(f"[{ref_num}] NOT FOUND"); print()
NotFoundLines(ref_num) ==
    <<Marker(ref_num) \o <<SP>> \o NotFoundToken, <<>>>>

----------------------------------------------------------------------------
(* Inputs. *)

\* the pieces paper texts are put together from
Segments ==
    { ReferencesToken,
      <<LF, "[", "1", "]", SP, "a">>,
      <<LF, "[", "2", "]", SP, "b">>,
      <<"[", "1", "]">>,
      <<LF>>,
      <<LF, "2">>,
      <<LF>> \o AppendixToken,
      <<LF, "[", "x">>,
      <<SP, TAB, "c">> }

RECURSIVE Concat(_)
Concat(ss) == IF ss = <<>> THEN <<>> ELSE Head(ss) \o Concat(Tail(ss))

Texts == {Concat(ss) : ss \in UNION {[1..n -> Segments] : n \in 0..MaxSegs}}

\* the elements of a finite set of integers in ascending order
RECURSIVE SortedSeq(_)
SortedSeq(S) ==
    IF S = {} THEN <<>>
    ELSE LET m == CHOOSE x \in S : \A y \in S : x <= y
         IN  <<m>> \o SortedSeq(S \ {m})

\* ref_numbers is an ascending list without duplicates, as in line 8
IdLists == {SortedSeq(S) : S \in SUBSET (1..MaxId)}

----------------------------------------------------------------------------
(* The script list_references.py. *)

\* main.py is not running
MainIdle ==
    /\ args = [convert |-> TRUE, extract |-> TRUE, clear |-> TRUE]
    /\ inputs = {}
    /\ folders = {}
    /\ txts = {}
    /\ templates = {}
    /\ outputs = {}
    /\ txt_files = {}
    /\ txts_at_start = {}
    /\ mpc = "idle"

\* lines 292-297: the template as generated holds no entry, and its display
\* step has not started
DisplayIdle ==
    /\ references = <<>>
    /\ didx = 1
    /\ shown = <<>>

\* the template script is not running
ParserIdle ==
    /\ section_text = <<>>
    /\ citations = <<>>
    /\ all_refs = <<>>
    /\ cidx = 1
    /\ unique_refs = <<>>
    /\ ppc = "idle"
    /\ DisplayIdle

Init ==
    /\ text \in Texts
    /\ ref_numbers \in IdLists
    /\ references_start = 0
    /\ references_text = <<>>
    /\ idx = 1
    /\ match = None
    /\ stdout = <<>>
    /\ total = 0
    /\ pc = "find"
    /\ ParserIdle
    /\ MainIdle

\* line 24: the number the for loop is at
CurrentRefReversed == ref_numbers[Len(ref_numbers) - idx + 1]

CurrentRef == ref_numbers[idx]

\* line 17
FindHeader ==
    /\ pc = "find"
    /\ references_start' = PyFind(text, ReferencesToken)
    /\ pc' = "check"
    /\ UNCHANGED <<text, ref_numbers, references_text, idx, match, stdout, total, pvars, dvars, mvars>>

\* FindFirstMarker with str.index in place of str.find: a ValueError ends
\* the script when the marker is absent
FindFirstMarkerIndex ==
    /\ pc = "check"
    /\ references_start = -1
    /\ IF PyFind(text, FirstMarker) = -1
       THEN pc' = "error" /\ UNCHANGED references_start
       ELSE pc' = "slice" /\ references_start' = PyFind(text, FirstMarker)
    /\ UNCHANGED <<text, ref_numbers, references_text, idx, match, stdout, total, pvars, dvars, mvars>>

\* lines 18-19
FindFirstMarker ==
    /\ pc = "check"
    /\ references_start = -1
    /\ references_start' = PyFind(text, FirstMarker)
    /\ pc' = "slice"
    /\ UNCHANGED <<text, ref_numbers, references_text, idx, match, stdout, total, pvars, dvars, mvars>>

\* line 21, reached from line 18 when the header was found and from line 19
SliceBlock ==
    /\ \/ pc = "slice"
       \/ (pc = "check" /\ references_start # -1)
    /\ references_text' = PySliceFrom(text, references_start)
    /\ pc' = "loop"
    /\ UNCHANGED <<text, ref_numbers, references_start, idx, match, stdout, total, pvars, dvars, mvars>>

\* lines 24-37: an iteration of the loop whose search matches
ExtractFound ==
    /\ pc = "loop"
    /\ idx <= Len(ref_numbers)
    /\ LET ref_num == CurrentRef
           m       == EntrySearch(references_text, ref_num)
       IN  /\ m.found
           /\ match' = m
           /\ stdout' = stdout \o
                  FoundLines(ref_num, CleanEntry(Group1(references_text, m)))
    /\ idx' = idx + 1
    /\ UNCHANGED <<text, ref_numbers, references_start, references_text, total, pc, pvars, dvars, mvars>>

\* ExtractNotFound leaving the loop at the first number that is not found
ExtractNotFoundAbort ==
    /\ pc = "loop"
    /\ idx <= Len(ref_numbers)
    /\ LET ref_num == CurrentRef
           m       == EntrySearch(references_text, ref_num)
       IN  /\ ~m.found
           /\ match' = m
           /\ stdout' = stdout \o NotFoundLines(ref_num)
    /\ idx' = Len(ref_numbers) + 1
    /\ UNCHANGED <<text, ref_numbers, references_start, references_text, total, pc, pvars, dvars, mvars>>

\* lines 24-29, 38-40: an iteration of the loop whose search does not match
ExtractNotFound ==
    /\ pc = "loop"
    /\ idx <= Len(ref_numbers)
    /\ LET ref_num == CurrentRef
           m       == EntrySearch(references_text, ref_num)
       IN  /\ ~m.found
           /\ match' = m
           /\ stdout' = stdout \o NotFoundLines(ref_num)
    /\ idx' = idx + 1
    /\ UNCHANGED <<text, ref_numbers, references_start, references_text, total, pc, pvars, dvars, mvars>>

\* lines 42-44, after the last iteration
Finish ==
    /\ pc = "loop"
    /\ idx > Len(ref_numbers)
    /\ total' = Len(ref_numbers)
    /\ pc' = "done"
    /\ UNCHANGED <<text, ref_numbers, references_start, references_text, idx, match, stdout, pvars, dvars, mvars>>

Next ==
    \/ FindHeader
    \/ FindFirstMarker
    \/ SliceBlock
    \/ ExtractFound
    \/ ExtractNotFound
    \/ Finish

Spec == Init /\ [][Next]_vars

----------------------------------------------------------------------------
(* The extraction loop (lines 24-44) as a function of the block it          *)
(* searches: references_text is any text, whatever lines 17-21 would have   *)
(* made of it.                                                               *)

\* the bibliography text of the boundary example of the specification
BoundaryExample ==
    <<"[", "7", "]", " ", "A", "l", "i", "c", "e", ".", " ",
      "T", "i", "t", "l", "e", " ", "A", ".", LF, "8", LF,
      "[", "8", "]", " ", "B", "o", "b", ".", " ",
      "T", "i", "t", "l", "e", " ", "B", ".">>

InitBlock ==
    /\ references_text \in Texts \cup {BoundaryExample}
    /\ ref_numbers \in IdLists \cup {<<7, 8>>}
    /\ text = references_text
    /\ references_start = 0
    /\ idx = 1
    /\ match = None
    /\ stdout = <<>>
    /\ total = 0
    /\ pc = "loop"
    /\ ParserIdle
    /\ MainIdle

NextBlock ==
    \/ ExtractFound
    \/ ExtractNotFound
    \/ Finish

SpecBlock == InitBlock /\ [][NextBlock]_vars

----------------------------------------------------------------------------
(* The citation parser: steps 2-4 of the generated template                 *)
(* (extract_references.py:276-289).                                          *)

\* \d+ at p: the position after the longest run of digits starting at p
DigitsEnd(t, p) ==
    LET stops == {q \in p..(Len(t) + 1) : ~IsDigit(At(t, q))}
    IN  CHOOSE q \in stops : \A r \in stops : q <= r

\* ItemsEnd for the pattern (?:,\d+)*, which allows no whitespace
RECURSIVE ItemsEndNoSpace(_, _)
ItemsEndNoSpace(t, p) ==
    IF At(t, p) # "," THEN p
    ELSE LET d == DigitsEnd(t, p + 1)
         IN  IF d = p + 1 THEN p ELSE ItemsEndNoSpace(t, d)

\* (?:,\s*\d+)* at p, greedy: the position after the last repetition.  A
\* repetition is a comma, any whitespace and at least one digit.
RECURSIVE ItemsEnd(_, _)
ItemsEnd(t, p) ==
    IF At(t, p) # "," THEN p
    ELSE LET q == p + 1 + SpaceRun(t, p + 1)
             d == DigitsEnd(t, q)
         IN  IF d = q THEN p ELSE ItemsEnd(t, d)

\* One match attempt of citation_pattern, \[(\d+(?:,\s*\d+)*)\], at s: the
\* position of the closing bracket, or 0 when the attempt fails.  Giving
\* back digits, whitespace or repetitions never helps: what would follow is
\* a digit, a whitespace or a comma, and the pattern wants a bracket.
CitationEnd(t, s) ==
    LET d == DigitsEnd(t, s + 1)
        e == ItemsEnd(t, d)
    IN  IF At(t, s) = "[" /\ d > s + 1 /\ At(t, e) = "]" THEN e ELSE 0

\* re.findall(citation_pattern, t) from position s on: group 1 of every
\* match, scanning left to right, each scan resuming after the last match
RECURSIVE FindAllFrom(_, _)
FindAllFrom(t, s) ==
    IF s > Len(t) THEN <<>>
    ELSE LET e == CitationEnd(t, s)
         IN  IF e = 0 THEN FindAllFrom(t, s + 1)
             ELSE <<SubSeq(t, s + 1, e - 1)>> \o FindAllFrom(t, e + 1)

FindAll(t) == FindAllFrom(t, 1)

\* str.split(','): the pieces of t between its commas
RECURSIVE SplitComma(_)
SplitComma(t) ==
    LET commas == {p \in 1..Len(t) : t[p] = ","}
    IN  IF commas = {} THEN <<t>>
        ELSE LET c == CHOOSE p \in commas : \A q \in commas : p <= q
             IN  <<SubSeq(t, 1, c - 1)>> \o SplitComma(SubSeq(t, c + 1, Len(t)))

\* the value of a digit character
DigitValue(c) == (CHOOSE i \in 1..10 : DigitChars[i] = c) - 1

\* int(s) for a string of decimal digits
RECURSIVE PyInt(_)
PyInt(ds) ==
    IF ds = <<>> THEN 0
    ELSE 10 * PyInt(SubSeq(ds, 1, Len(ds) - 1)) + DigitValue(ds[Len(ds)])

\* CitationRefs turning each number into a 0-based index
CitationRefsZeroBased(citation) ==
    LET parts == SplitComma(citation)
    IN  [i \in 1..Len(parts) |-> PyInt(PyStrip(parts[i])) - 1]

\* line 283: [int(ref.strip()) for ref in citation.split(',')]
CitationRefs(citation) ==
    LET parts == SplitComma(citation)
    IN  [i \in 1..Len(parts) |-> PyInt(PyStrip(parts[i]))]

\* set(all_refs)
ElementsOf(xs) == {xs[i] : i \in 1..Len(xs)}

\* UniqueSorted without sorted(): the first occurrences, in order
RECURSIVE UniqueUnsorted(_)
UniqueUnsorted(xs) ==
    IF xs = <<>> THEN <<>>
    ELSE LET front == UniqueUnsorted(SubSeq(xs, 1, Len(xs) - 1))
             last  == xs[Len(xs)]
         IN  IF last \in ElementsOf(front) THEN front ELSE Append(front, last)

\* line 287: sorted(set(all_refs))
UniqueSorted(xs) == SortedSeq(ElementsOf(xs))

\* the characters section texts are made of
ParserChars == {"[", "]", ",", " ", "0", "1", "a"}

\* section texts quoted by the project's specification
ExampleSections ==
    { <<"[", "3", ",", "3", "]", " ", "a", "n", "d", " ", "[", "1", "]">>,
      <<"[", "S", "m", "i", "t", "h", ",", " ", "2", "0", "2", "0", "]", " ",
        "r", "e", "p", "o", "r", "t", "e", "d", " ", "[", "5", "]">>,
      <<"n", "o", " ", "c", "i", "t", "a", "t", "i", "o", "n", "s", " ",
        "h", "e", "r", "e">>,
      <<"[", "3", ",", " ", "7", ",", " ", "9", "]">> }

SectionTexts ==
    UNION {[1..n -> ParserChars] : n \in 0..MaxChars} \cup ExampleSections

\* list_references.py is not running
ResolverIdle ==
    /\ text = <<>>
    /\ ref_numbers = <<>>
    /\ references_start = 0
    /\ references_text = <<>>
    /\ idx = 1
    /\ match = None
    /\ stdout = <<>>
    /\ total = 0
    /\ pc = "idle"

InitParser ==
    /\ section_text \in SectionTexts
    /\ citations = <<>>
    /\ all_refs = <<>>
    /\ cidx = 1
    /\ unique_refs = <<>>
    /\ ppc = "findall"
    /\ DisplayIdle
    /\ ResolverIdle
    /\ MainIdle

\* lines 277-281
FindCitations ==
    /\ ppc = "findall"
    /\ citations' = FindAll(section_text)
    /\ all_refs' = <<>>
    /\ ppc' = "parse"
    /\ UNCHANGED <<section_text, cidx, unique_refs, rvars, dvars, mvars>>

\* lines 282-284: one iteration of the loop
ParseCitation ==
    /\ ppc = "parse"
    /\ cidx <= Len(citations)
    /\ all_refs' = all_refs \o CitationRefs(citations[cidx])
    /\ cidx' = cidx + 1
    /\ UNCHANGED <<section_text, citations, unique_refs, ppc, rvars, dvars, mvars>>

\* lines 287-289, after the last iteration
UniqueRefs ==
    /\ ppc = "parse"
    /\ cidx > Len(citations)
    /\ unique_refs' = UniqueSorted(all_refs)
    /\ ppc' = "done"
    /\ UNCHANGED <<section_text, citations, all_refs, cidx, rvars, dvars, mvars>>

NextParser ==
    \/ FindCitations
    \/ ParseCitation
    \/ UniqueRefs

SpecParser == InitParser /\ [][NextParser]_vars

----------------------------------------------------------------------------
(* Reading what the resolver printed. *)

\* the number of outcomes printed so far: a line and a blank line each
Outcomes == Len(stdout) \div 2

OutcomeLine(k) == stdout[2 * k - 1]

\* the position of the first closing bracket of a line, 0 when it has none
LineClose(line) ==
    LET closes == {p \in 1..Len(line) : line[p] = "]"}
    IN  IF closes = {} THEN 0 ELSE CHOOSE p \in closes : \A q \in closes : p <= q

\* a printed line has the shape [digits] space body
WellFormedLine(line) ==
    /\ LineClose(line) > 2
    /\ line[1] = "["
    /\ \A p \in 2..(LineClose(line) - 1) : IsDigit(line[p])
    /\ At(line, LineClose(line) + 1) = SP

LineId(line) == PyInt(SubSeq(line, 2, LineClose(line) - 1))

LineBody(line) == SubSeq(line, LineClose(line) + 2, Len(line))

IsNotFoundLine(line) == LineBody(line) = NotFoundToken

\* the maximal runs of non-whitespace characters of t, in order
RECURSIVE Words(_)
Words(t) ==
    LET keep == {p \in 1..Len(t) : ~IsSpace(t[p])}
    IN  IF keep = {} THEN <<>>
        ELSE LET a == CHOOSE p \in keep : \A q \in keep : p <= q
                 b == CHOOSE p \in a..Len(t) :
                          /\ \A q \in a..p : ~IsSpace(t[q])
                          /\ IsSpace(At(t, p + 1)) \/ p = Len(t)
             IN  <<SubSeq(t, a, b)>> \o Words(SubSeq(t, b + 1, Len(t)))

\* words joined by single spaces
RECURSIVE JoinWords(_)
JoinWords(ws) ==
    IF ws = <<>> THEN <<>>
    ELSE IF Len(ws) = 1 THEN ws[1]
    ELSE ws[1] \o <<SP>> \o JoinWords(Tail(ws))

\* what the script prints for the number i when it is the only one requested
SoloLine(t, i) ==
    LET header == PyFind(t, ReferencesToken)
        start  == IF header = -1 THEN PyFind(t, FirstMarker) ELSE header
        block  == PySliceFrom(t, start)
        m      == EntrySearch(block, i)
    IN  IF m.found
        THEN Marker(i) \o <<SP>> \o CleanEntry(Group1(block, m))
        ELSE Marker(i) \o <<SP>> \o NotFoundToken

----------------------------------------------------------------------------
(* Claims about the resolver. *)

\* C1: when the script has finished, it has printed exactly one outcome per
\* requested number, in one-to-one correspondence with ref_numbers: a line
\* [n] followed by an entry or by NOT FOUND for the k-th number n, so the
\* numbers reported are exactly the requested ones, for every text.
C1_Totality ==
    pc = "done" =>
        /\ Len(stdout) = 2 * Len(ref_numbers)
        /\ \A k \in 1..Len(ref_numbers) :
               /\ WellFormedLine(OutcomeLine(k))
               /\ LineId(OutcomeLine(k)) = ref_numbers[k]
               /\ stdout[2 * k] = <<>>
        /\ {LineId(OutcomeLine(k)) : k \in 1..Outcomes} = ElementsOf(ref_numbers)

\* a finished run that reported one number not found and the next one found
C1_Witness ==
    /\ pc = "done"
    /\ Len(ref_numbers) = 2
    /\ Outcomes = 2
    /\ IsNotFoundLine(OutcomeLine(1))
    /\ ~IsNotFoundLine(OutcomeLine(2))

\* the terminators the claim C4 names, at position e of the block
ClaimedTerminator(t, e) ==
    \/ /\ HasAt(t, e, <<LF, "[">>)
       /\ \E m \in 1..(Len(t) - e) :
              /\ \A k \in 1..m : IsDigit(At(t, e + 1 + k))
              /\ At(t, e + 2 + m) = "]"
    \/ /\ HasAt(t, e, <<LF>> \o AppendixToken)
       /\ (e + 9 = Len(t) + 1 \/ At(t, e + 9) = LF)
    \/ /\ At(t, e) = LF
       /\ \E m \in 1..(Len(t) - e) :
              /\ \A k \in 1..m : IsDigit(At(t, e + k))
              /\ (e + m + 1 = Len(t) + 1 \/ At(t, e + m + 1) = LF)
    \/ e = Len(t) + 1

\* C4: the entry printed for a number that was found is the text from right
\* after its marker up to the earliest following terminator, the terminators
\* being a new line that begins with a numeric marker, a line that is the
\* word Appendix, a line of digits only, and the end of the text.
C4_FourTerminators ==
    (pc = "loop" /\ idx > 1 /\ match.found) =>
        LET t     == references_text
            after == match.start + Len(Marker(ref_numbers[idx - 1]))
            terms == {e \in after..(Len(t) + 1) : ClaimedTerminator(t, e)}
            first == CHOOSE e \in terms : \A f \in terms : e <= f
        IN  LineBody(OutcomeLine(Outcomes)) = CleanEntry(SubSeq(t, after, first - 1))

\* C5: when the text holds neither References nor [1], the whole text is the
\* bibliography block: every requested number whose marker and entry occur
\* anywhere in the text is resolved to that entry.
C5_WholeTextFallback ==
    (/\ pc = "done"
     /\ PyFind(text, ReferencesToken) = -1
     /\ PyFind(text, FirstMarker) = -1) =>
        \A k \in 1..Outcomes :
            LET m == EntrySearch(text, ref_numbers[k])
            IN  m.found =>
                    LineBody(OutcomeLine(k)) = CleanEntry(Group1(text, m))

\* C6: with the boundary example as the block and 7 and 8 requested, the
\* script prints "[7] Alice. Title A." and "[8] Bob. Title B.": the stray
\* line 8 is not part of entry 7.
C6_BoundaryExample ==
    (pc = "done" /\ references_text = BoundaryExample /\ ref_numbers = <<7, 8>>) =>
        stdout = << <<"[", "7", "]", " ", "A", "l", "i", "c", "e", ".", " ",
                      "T", "i", "t", "l", "e", " ", "A", ".">>,
                    <<>>,
                    <<"[", "8", "]", " ", "B", "o", "b", ".", " ",
                      "T", "i", "t", "l", "e", " ", "B", ".">>,
                    <<>> >>

\* the run on the boundary example has finished, both numbers found
C6_Witness ==
    /\ pc = "done"
    /\ references_text = BoundaryExample
    /\ ref_numbers = <<7, 8>>
    /\ total = 2
    /\ match.found

\* C7: the outcomes are printed in ascending order of their numbers, at every
\* point of the run, wherever the entries stand in the bibliography.
C7_AscendingOutput ==
    \A j, k \in 1..Outcomes :
        j < k => LineId(OutcomeLine(j)) < LineId(OutcomeLine(k))

\* both 1 and 2 were found, and the bibliography lists [2] before [1]
C7_Witness ==
    /\ pc = "done"
    /\ ref_numbers = <<1, 2>>
    /\ EntrySearch(references_text, 1).found
    /\ EntrySearch(references_text, 2).found
    /\ EntrySearch(references_text, 2).start < EntrySearch(references_text, 1).start
    /\ LineId(OutcomeLine(1)) = 1
    /\ LineId(OutcomeLine(2)) = 2

\* C8: a requested number whose marker does not occur in the block is
\* reported NOT FOUND, every requested number gets its outcome, and the
\* outcome of each number is the one it gets when requested alone.
C8_IndependentOutcomes ==
    /\ Outcomes <= Len(ref_numbers)
    /\ (pc = "done" => Outcomes = Len(ref_numbers))
    /\ \A k \in 1..Outcomes :
           /\ PyFind(references_text, Marker(ref_numbers[k])) = -1
                  => IsNotFoundLine(OutcomeLine(k))
           /\ OutcomeLine(k) = SoloLine(text, ref_numbers[k])

\* 1 has no marker in the block and is not found; 2, after it, is found
C8_Witness ==
    /\ pc = "done"
    /\ ref_numbers = <<1, 2>>
    /\ PyFind(references_text, Marker(1)) = -1
    /\ IsNotFoundLine(OutcomeLine(1))
    /\ match.found
    /\ OutcomeLine(2) = SoloLine(text, 2)

\* C9: on the empty text the script runs to its end and reports NOT FOUND
\* for every requested number.
C9_EmptyText ==
    text = <<>> =>
        /\ pc = "done" \/ ENABLED Next
        /\ \A k \in 1..Outcomes : IsNotFoundLine(OutcomeLine(k))
        /\ pc = "done" => Outcomes = Len(ref_numbers)

\* the run on the empty text has finished with two numbers requested
C9_Witness ==
    /\ text = <<>>
    /\ pc = "done"
    /\ Len(ref_numbers) = 2
    /\ Outcomes = 2
    /\ references_start = -1

\* no whitespace at either end, no newline, no two whitespace in a row
Normalized(b) ==
    /\ b # <<>> => (~IsSpace(b[1]) /\ ~IsSpace(b[Len(b)]))
    /\ \A p \in 1..Len(b) : b[p] # LF
    /\ \A p \in 1..(Len(b) - 1) : ~(IsSpace(b[p]) /\ IsSpace(b[p + 1]))

\* C10: every entry printed as found is whitespace-normalized, and it is the
\* words of the matched text joined by single spaces.
C10_Normalized ==
    /\ \A k \in 1..Outcomes :
           ~IsNotFoundLine(OutcomeLine(k)) => Normalized(LineBody(OutcomeLine(k)))
    /\ (idx > 1 /\ match.found) =>
           LineBody(OutcomeLine(Outcomes)) =
               JoinWords(Words(Group1(references_text, match)))

\* an entry was printed whose matched text has a run of two whitespace
\* characters between two words
C10_Witness ==
    /\ idx > 1
    /\ match.found
    /\ LET g == Group1(references_text, match)
       IN  /\ Len(g) >= 4
           /\ ~IsSpace(g[1])
           /\ ~IsSpace(g[Len(g)])
           /\ \E p \in 2..(Len(g) - 2) : IsSpace(g[p]) /\ IsSpace(g[p + 1])

----------------------------------------------------------------------------
(* Claims about the citation parser. *)

\* whether t[i..j] is a citation marker: a bracketed list of runs of digits
\* separated by a comma and optional whitespace
IsMarkerSpan(t, i, j) ==
    /\ t[i] = "["
    /\ t[j] = "]"
    /\ j > i + 1
    /\ IsDigit(t[i + 1])
    /\ IsDigit(t[j - 1])
    /\ \A p \in (i + 1)..(j - 1) :
           \/ IsDigit(t[p])
           \/ (t[p] = "," /\ IsDigit(t[p - 1]))
           \/ (IsSpace(t[p]) /\ (t[p - 1] = "," \/ IsSpace(t[p - 1])))

\* the values of the maximal runs of digits of t[i..j]
SpanInts(t, i, j) ==
    {PyInt(SubSeq(t, a, b)) : <<a, b>> \in
        {ab \in (i..j) \X (i..j) :
            /\ ab[1] <= ab[2]
            /\ \A p \in ab[1]..ab[2] : IsDigit(t[p])
            /\ ~IsDigit(At(t, ab[1] - 1))
            /\ ~IsDigit(At(t, ab[2] + 1))}}

\* the integers that occur inside the citation markers of t
MarkerInts(t) ==
    UNION {SpanInts(t, ij[1], ij[2]) : ij \in
        {ij \in (1..Len(t)) \X (1..Len(t)) :
            ij[1] < ij[2] /\ IsMarkerSpan(t, ij[1], ij[2])}}

\* C2: the parser's result is strictly increasing, hence free of duplicates,
\* however often and in whatever order a number occurs in the text.
C2_StrictlyIncreasing ==
    \A i, j \in 1..Len(unique_refs) : i < j => unique_refs[i] < unique_refs[j]

\* a finished parse of a text that cites a number twice and a larger number
\* before a smaller one
C2_Witness ==
    /\ ppc = "done"
    /\ \E i, j \in 1..Len(all_refs) : i < j /\ all_refs[i] = all_refs[j]
    /\ \E i, j \in 1..Len(all_refs) : i < j /\ all_refs[i] > all_refs[j]
    /\ Len(unique_refs) >= 2

\* C3: the parser returns exactly the integers that occur inside the markers
\* of the text; brackets of any other content contribute nothing, and a text
\* without markers gives the empty result.
C3_ExactlyMarkerInts ==
    ppc = "done" => ElementsOf(unique_refs) = MarkerInts(section_text)

\* a finished parse of a text with a bracket that is no marker and a marker
C3_Witness ==
    /\ ppc = "done"
    /\ unique_refs # <<>>
    /\ \E p \in 1..Len(section_text) :
           section_text[p] = "[" /\ ~IsDigit(At(section_text, p + 1))

\* C11: every number the parser returns is a positive integer, at least 1.
C11_PositiveIds ==
    \A i \in 1..Len(unique_refs) : unique_refs[i] >= 1

\* C11 as amended: every number the parser returns is a non-negative
\* integer, at least 0.
C11_NonNegativeIds ==
    \A i \in 1..Len(unique_refs) : unique_refs[i] >= 0

\* a finished parse of a text with a marker of zeros and another number
C11_Witness ==
    /\ ppc = "done"
    /\ Len(unique_refs) >= 2
    /\ unique_refs[1] = 0
    /\ 0 \in MarkerInts(section_text)

----------------------------------------------------------------------------
(* The generated template as a whole: steps 2-4, then the display step of   *)
(* lines 299-307 over the entries of step 5.                                 *)

\* a section that cites the numbers of ids in one marker, e.g. [0,2]
RECURSIVE JoinComma(_)
JoinComma(ids) ==
    IF ids = <<>> THEN <<>>
    ELSE IF Len(ids) = 1 THEN ToDigits(ids[1])
    ELSE ToDigits(ids[1]) \o <<",">> \o JoinComma(Tail(ids))

MarkerText(ids) == IF ids = <<>> THEN <<>> ELSE <<"[">> \o JoinComma(ids) \o <<"]">>

\* the sections pasted into the template
TemplateSections == {MarkerText(SortedSeq(S)) : S \in SUBSET (0..MaxId)}

\* the entry texts written into the references dictionary
EntryTexts == {<<"a">>, <<"b", SP, "c">>}

\* the references dictionary of step 5: entries for some of the numbers
ReferenceDicts == UNION {[D -> EntryTexts] : D \in SUBSET (0..MaxId)}

InitTemplate ==
    /\ section_text \in TemplateSections
    /\ citations = <<>>
    /\ all_refs = <<>>
    /\ cidx = 1
    /\ unique_refs = <<>>
    /\ ppc = "findall"
    /\ references \in ReferenceDicts
    /\ didx = 1
    /\ shown = <<>>
    /\ ResolverIdle
    /\ MainIdle

\* lines 304-307: an iteration for a number that has an entry
DisplayEntry ==
    /\ ppc = "done"
    /\ didx <= Len(unique_refs)
    /\ unique_refs[didx] \in DOMAIN references
    /\ shown' = shown \o
           <<Marker(unique_refs[didx]) \o <<SP>> \o references[unique_refs[didx]], <<>>>>
    /\ didx' = didx + 1
    /\ UNCHANGED <<references, pvars, rvars, mvars>>

\* lines 304-305: an iteration for a number that has no entry prints nothing
DisplaySkip ==
    /\ ppc = "done"
    /\ didx <= Len(unique_refs)
    /\ unique_refs[didx] \notin DOMAIN references
    /\ didx' = didx + 1
    /\ UNCHANGED <<references, shown, pvars, rvars, mvars>>

\* the end of the template script, after the last iteration
DisplayEnd ==
    /\ ppc = "done"
    /\ didx > Len(unique_refs)
    /\ ppc' = "end"
    /\ UNCHANGED <<section_text, citations, all_refs, cidx, unique_refs,
                   dvars, rvars, mvars>>

NextTemplate ==
    \/ FindCitations
    \/ ParseCitation
    \/ UniqueRefs
    \/ DisplayEntry
    \/ DisplaySkip
    \/ DisplayEnd

SpecTemplate == InitTemplate /\ [][NextTemplate]_vars

\* C13: when the template script has ended, its display step has printed an
\* outcome for every number of unique_refs, and a number without an entry in
\* references is reported, as not found, and not left out.
C13_DisplayTotal ==
    ppc = "end" =>
        \A i \in 1..Len(unique_refs) :
            \E k \in 1..(Len(shown) \div 2) :
                /\ WellFormedLine(shown[2 * k - 1])
                /\ LineId(shown[2 * k - 1]) = unique_refs[i]
                /\ unique_refs[i] \notin DOMAIN references
                       => LineBody(shown[2 * k - 1]) = NotFoundToken

----------------------------------------------------------------------------
(* main.py: the run of the tool over the folders inputs/, tmp/txts,         *)
(* tmp/extraction_templates and outputs/.  A file is known by its stem: the *)
(* conversion of inputs/s.pdf is tmp/txts/s.txt, and its extraction writes  *)
(* outputs/s_references.txt or tmp/extraction_templates/s_template.py.      *)

Stems == 1..MaxFiles

\* main.py:76-83: the options of Args that decide the steps of a run
ArgsSet == [convert : BOOLEAN, extract : BOOLEAN, clear : BOOLEAN]

\* main.py:76-83: the defaults of Args
DefaultArgs == [convert |-> TRUE, extract |-> TRUE, clear |-> TRUE]

\* the files a folder holds: none when the folder does not exist
FolderStates ==
    {fs \in [exists : BOOLEAN, files : SUBSET Stems] : ~fs.exists => fs.files = {}}

InitMain ==
    /\ args \in ArgsSet
    /\ inputs \in SUBSET Stems
    /\ \E t \in FolderStates, e \in FolderStates :
           /\ folders = (IF t.exists THEN {"txts"} ELSE {}) \cup
                        (IF e.exists THEN {"templates"} ELSE {})
           /\ txts = t.files
           /\ templates = e.files
           /\ txts_at_start = t.files
    /\ outputs = {}
    /\ txt_files = {}
    /\ mpc = "clear"
    /\ ResolverIdle
    /\ ParserIdle

\* main.py:100-103 with clear_tmp_folders (21-37): every file of the two
\* folders that exist is removed
ClearTmp ==
    /\ mpc = "clear"
    /\ args.clear
    /\ txts' = {}
    /\ templates' = {}
    /\ mpc' = "convert"
    /\ UNCHANGED <<args, inputs, folders, outputs, txt_files, txts_at_start,
                   rvars, pvars, dvars>>

\* main.py:100 when args.clear is false
SkipClear ==
    /\ mpc = "clear"
    /\ ~args.clear
    /\ mpc' = "convert"
    /\ UNCHANGED <<args, inputs, folders, txts, templates, outputs, txt_files,
                   txts_at_start, rvars, pvars, dvars>>

\* main.py:106-112 with convert_all_pdfs (convert_pdfs.py:28-64): the folders
\* are created, each PDF is converted or fails, and main returns when no
\* file was converted
ConvertPdfs ==
    /\ mpc = "convert"
    /\ args.convert
    /\ folders' = folders \cup {"txts"}
    /\ \E ok \in SUBSET inputs :
           /\ txts' = txts \cup ok
           /\ mpc' = IF ok = {} THEN "exit" ELSE "extract"
    /\ UNCHANGED <<args, inputs, templates, outputs, txt_files, txts_at_start,
                   rvars, pvars, dvars>>

\* main.py:113-114
SkipConvert ==
    /\ mpc = "convert"
    /\ ~args.convert
    /\ mpc' = "extract"
    /\ UNCHANGED <<args, inputs, folders, txts, templates, outputs, txt_files,
                   txts_at_start, rvars, pvars, dvars>>

\* main.py:117-122 with extract_from_all_papers (extract_references.py:
\* 350-367) and a model: the text files are globbed and each is sent to the
\* provider, which answers (the result is saved) or fails
ExtractWithModel ==
    /\ mpc = "extract"
    /\ args.extract
    /\ txt_files' = txts
    /\ \E ok \in SUBSET txts : outputs' = outputs \cup ok
    /\ mpc' = "done"
    /\ UNCHANGED <<args, inputs, folders, txts, templates, txts_at_start,
                   rvars, pvars, dvars>>

\* main.py:123-127 with extract_from_all_papers and model=None: the text
\* files are globbed and a template is saved for each
\* (manual_extraction_template, extract_references.py:319-324)
ExtractTemplates ==
    /\ mpc = "extract"
    /\ ~args.extract
    /\ txt_files' = txts
    /\ templates' = templates \cup txts
    /\ folders' = IF txts = {} THEN folders ELSE folders \cup {"templates"}
    /\ mpc' = "done"
    /\ UNCHANGED <<args, inputs, txts, outputs, txts_at_start,
                   rvars, pvars, dvars>>

NextMain ==
    \/ ClearTmp
    \/ SkipClear
    \/ ConvertPdfs
    \/ SkipConvert
    \/ ExtractWithModel
    \/ ExtractTemplates

SpecMain == InitMain /\ [][NextMain]_vars

\* C12: in a run with --no-convert and every other option at its default, no
\* step before the extraction removes a text file of tmp/txts, and the
\* extraction step works on the text files that were there at the start.
C12_NoConvertKeepsTexts ==
    (args = [DefaultArgs EXCEPT !.convert = FALSE]) =>
        /\ mpc \in {"clear", "convert", "extract"} => txts = txts_at_start
        /\ mpc = "done" => txt_files = txts_at_start

====
